---- MODULE Spec2Model ----
(***************************************************************************)
(* Model of the gfx device crate (src/device/lib.rs): the scoped buffer    *)
(* mapping wrappers ReadableMapping / WritableMapping / RWMapping, the     *)
(* MapFactory constructors, the Device entry points that surround them     *)
(* and the byte-size arithmetic of typed buffer handles.                   *)
(*                                                                         *)
(* A device is driven by one client thread.  Every `&mut self` method of   *)
(* the device needs the device not to be exclusively borrowed; a mapping   *)
(* session holds `device: &'a mut D` from construction to drop.            *)
(***************************************************************************)
EXTENDS Integers, Sequences, FiniteSets, TLC

\* ------------------------------------------------------------------ bounds
MaxLen      == 1      \* largest element count / index / length a client passes
MaxMaps     == 2      \* map_buffer_raw calls in one run
MaxSessions == 2      \* mapping sessions opened in one run
UsizeBits   == 5      \* width of usize in the handle arithmetic

\* Element contents are abstracted to two values; a run follows one buffer of
\* the backend from its creation to its deletion.
Vals  == {0, 1}
Slots == {1}

UsizeMod == 2 ^ UsizeBits
UsizeMax == UsizeMod - 1

\* ------------------------------------------------------- element types
\* The element types the tests instantiate: (), u8, u16.
ElemTypes == {"unit", "u8", "u16"}

size_of(T) == CASE T = "unit" -> 0
                [] T = "u8"   -> 1
                [] T = "u16"  -> 2

\* The three wrapper kinds and the access each asks the backend for.
Kinds == {"Readable", "Writable", "RW"}

\* The result of a call that panicked instead of returning a usize.
Fail == 0 - 1

VARIABLES
    pc,        \* client thread: "run", "unwinding" (panic, locals being dropped), "panicked"
    bufs,      \* backend: slot -> [state, T, size, mem]
    mapped,    \* backend: mapper tokens currently mapped
    nmaps,     \* backend: number of map_buffer_raw calls so far
    last,      \* backend: the latest call executed: [op, tok, by, borrowed]
    held,      \* client: mapper tokens it got from map_buffer_raw (Mapper: Clone)
    sessions,  \* live mapping wrappers: [sid, via, kind, raw, len]
    opened,    \* wrappers constructed so far
    closed,    \* unmap_buffer_raw calls made by drops so far
    ctor,      \* what the live wrapper was constructed with: [sid, raw, len]
    lastSet,   \* the latest in-range WritableMapping::set not yet overwritten, and the
               \* contents its buffer should have after it
    lastCall,  \* the latest client call on a session and what it did
    view,      \* the slice the latest deref returned
    probe      \* a typed handle built by create_buffer<T> / mock_buffer<T> and its len()

vars == <<pc, bufs, mapped, nmaps, last, held, sessions, opened, closed, ctor,
          lastSet, lastCall, view, probe>>

NoTok   == [buf |-> 0, n |-> 0]
NoSet   == [via |-> "none", buf |-> 0, idx |-> 0, val |-> 0, want |-> <<>>]
NoCall  == [op |-> "none", idx |-> 0, len |-> 0, rawset |-> FALSE, res |-> "none"]
NoCtor  == [sid |-> 0, raw |-> NoTok, len |-> 0]
NoView  == [sid |-> 0, data |-> <<>>]
NoProbe == [stage |-> "input", via |-> "none", T |-> "unit", n |-> 0, size |-> 0, len |-> 0]
FreeBuf == [state |-> "free", T |-> "unit", size |-> 0, mem |-> <<>>]

Live  == {b \in Slots : bufs[b].state = "live"}

\* ------------------------------------------------ typed handle arithmetic
\* usize multiplication: the product, and whether it overflowed.
usize_mul(a, b) == (a * b) % UsizeMod
mul_overflows(a, b) == a * b > UsizeMax

\* Device::create_buffer<T>(num, usage): byte size handed to create_buffer_raw.
create_buffer_size_added(T, num) == (num + size_of(T)) % UsizeMod
create_buffer_size(T, num) == usize_mul(num, size_of(T))

\* test::mock_buffer<T>(len): BufferInfo.size of the mocked handle.
mock_buffer_size(T, n) == usize_mul(size_of(T), n)

\* handle::Buffer<R, T>::len(): element count from the byte size; a zero-sized
\* element type has no length.
len_unchecked(T, size) == IF size_of(T) = 0 THEN 0 ELSE size \div size_of(T)
len(T, size) == IF size_of(T) = 0 THEN Fail ELSE size \div size_of(T)

\* Elements backing a buffer of `size` bytes viewed as T.
Capacity(T, size) == IF size_of(T) = 0 THEN 0 ELSE size \div size_of(T)

\* ------------------------------------------------------------ the borrow
\* `device: &'a mut D`: while a wrapper lives, no `&mut self` method of the
\* device can be called by the client.
DeviceFreeShared == TRUE
DeviceFree == sessions = {}

\* Mapper: Clone -- the clone of a token is the same token.
clone(m) == m

Running == pc = "run"
\* A backend call: what was called (calls that neither map nor unmap are
\* recorded as "other"), on which token, by which session's code (0: by the
\* client), and whether a wrapper held the device when it ran.
Entry(op, tok, by, borrowed) == [op |-> op, tok |-> tok, by |-> by, borrowed |-> borrowed]
Recorded(op) == IF op \in {"map_buffer_raw", "unmap_buffer_raw"} THEN op ELSE "other"
Call(op, tok, by) == last' = Entry(Recorded(op), tok, by, sessions # {})

\* After a panic the stack unwinds: live wrappers are dropped, then the thread is dead.
Unwind(ss) == IF ss = {} THEN "panicked" ELSE "unwinding"

\* ------------------------------------------------------------ backend mock
\* map_buffer_raw: a fresh token over the buffer.
NewTok(b) == [buf |-> b, n |-> nmaps + 1]

\* A token can be used while it is mapped and its buffer is alive.
TokValid(t) == t \in mapped /\ t.buf \in Live

\* What an out-of-contract write (past the mapped region, or through a token
\* that is no longer mapped) can do: hit nothing the model sees, or any element
\* of any live buffer.
WildWrites(val) ==
    {bufs} \cup {[bufs EXCEPT ![p[1]].mem[p[2]] = val] :
                   p \in {q \in Live \X (1..MaxLen) : q[2] <= Len(bufs[q[1]].mem)}}

\* RawMapping::set<T>(index, val), not bounds-checked: the buffer states it can leave.
raw_set(t, idx, val) ==
    IF TokValid(t) /\ idx < Len(bufs[t.buf].mem)
    THEN {[bufs EXCEPT ![t.buf].mem[idx + 1] = val]}
    ELSE WildWrites(val)

\* RawMapping::to_slice<T>(len): the slices it can return; out of contract the
\* elements read are arbitrary.
to_slice(t, n) ==
    IF TokValid(t) /\ n <= Len(bufs[t.buf].mem)
    THEN {SubSeq(bufs[t.buf].mem, 1, n)}
    ELSE [1..n -> Vals]

\* unmap_buffer_raw(map): the backend forgets the token.
unmap_buffer_raw(m, t) == m \ {t}

\* --------------------------------------------------------------- MapFactory
map_readable_long(map, length) == [kind |-> "Readable", raw |-> map, len |-> length + 1]
map_readable(map, length) == [kind |-> "Readable", raw |-> map, len |-> length]

map_writable(map, length) == [kind |-> "Writable", raw |-> map, len |-> length]

map_read_write(map, length) == [kind |-> "RW", raw |-> map, len |-> length]

Wrapper(kind, map, length) ==
    CASE kind = "Readable" -> map_readable(map, length)
      [] kind = "Writable" -> map_writable(map, length)
      [] kind = "RW"       -> map_read_write(map, length)

\* The wrapper as the model tracks it: numbered in order of construction and
\* tagged with the call that constructed it.
Session(w, sid, via) == [sid |-> sid, via |-> via, kind |-> w.kind, raw |-> w.raw, len |-> w.len]

NextSid == opened + 1

\* ------------------------------------------------------------------- Drop
\* The tokens each wrapper's drop() hands to device.unmap_buffer_raw, in order.
ReadableMapping_dropNone(s) == <<>>
ReadableMapping_drop(s) == <<clone(s.raw)>>

WritableMapping_dropTwice(s) == <<clone(s.raw), clone(s.raw)>>
WritableMapping_drop(s) == <<clone(s.raw)>>

RWMapping_dropOther(s) == <<[s.raw EXCEPT !.n = 0]>>
RWMapping_drop(s) == <<clone(s.raw)>>

drop(s) ==
    CASE s.kind = "Readable" -> ReadableMapping_drop(s)
      [] s.kind = "Writable" -> WritableMapping_drop(s)
      [] s.kind = "RW"       -> RWMapping_drop(s)

RECURSIVE UnmapAll(_, _)
UnmapAll(m, toks) ==
    IF toks = <<>> THEN m ELSE UnmapAll(unmap_buffer_raw(m, Head(toks)), Tail(toks))


\* WritableMapping::set: the bounds check in front of the raw write.
set_panics_off_by_one(idx, n) == idx > n
set_panics(idx, n) == idx >= n

\* mem with val at index idx, when it has such an index.
Stored(mem, idx, val) == IF idx < Len(mem) THEN [mem EXCEPT ![idx + 1] = val] ELSE mem

\* The latest recorded set survives as long as its buffer's contents stay put.
KeepSet(bs) ==
    IF lastSet.buf # 0 /\ bs[lastSet.buf] # bufs[lastSet.buf] THEN NoSet ELSE lastSet

\* --------------------------------------------------------------------- Init
Init ==
    /\ pc = "run"
    /\ bufs = [b \in Slots |-> FreeBuf]
    /\ mapped = {}
    /\ nmaps = 0
    /\ last = Entry("none", NoTok, 0, FALSE)
    /\ held = {}
    /\ sessions = {}
    /\ opened = 0
    /\ closed = 0
    /\ ctor = NoCtor
    /\ lastSet = NoSet
    /\ lastCall = NoCall
    /\ view = NoView
    /\ probe = NoProbe

\* ------------------------------------------------- device calls by the client
\* create_buffer<T>(num, usage): create_buffer_raw(num * size_of::<T>(), usage).cast();
\* the new buffer's contents are whatever the backend allocated.
CreateBuffer(T, num) ==
    /\ Running /\ DeviceFree
    /\ ~mul_overflows(num, size_of(T))
    /\ \E b \in Slots :
         /\ bufs[b].state = "free"
         /\ \A c \in Slots : c < b => bufs[c].state # "free"
         /\ LET size == create_buffer_size(T, num) IN
            \E m \in [1..Capacity(T, size) -> Vals] :
              bufs' = [bufs EXCEPT ![b] = [state |-> "live", T |-> T, size |-> size, mem |-> m]]
    /\ Call("create_buffer_raw", NoTok, 0)
    /\ lastCall' = NoCall /\ view' = NoView
    /\ UNCHANGED <<pc, mapped, nmaps, held, sessions, opened, closed, ctor, lastSet, probe>>

\* delete_buffer<T>(buf): delete_buffer_raw(buf.cast()).
DeleteBuffer(b) ==
    /\ Running /\ DeviceFree
    /\ b \in Live
    /\ bufs' = [bufs EXCEPT ![b] = [FreeBuf EXCEPT !.state = "deleted"]]
    /\ Call("delete_buffer_raw", NoTok, 0)
    /\ lastSet' = KeepSet(bufs')
    /\ lastCall' = NoCall /\ view' = NoView
    /\ UNCHANGED <<pc, mapped, nmaps, held, sessions, opened, closed, ctor, probe>>

\* update_buffer<T>(buf, data, offset_elements) with one element of data inside the buffer.
UpdateBuffer(b, off, val) ==
    /\ Running /\ DeviceFree
    /\ b \in Live /\ off < Len(bufs[b].mem)
    /\ bufs' = [bufs EXCEPT ![b].mem[off + 1] = val]
    /\ Call("update_buffer_raw", NoTok, 0)
    /\ lastSet' = KeepSet(bufs')
    /\ lastCall' = NoCall /\ view' = NoView
    /\ UNCHANGED <<pc, mapped, nmaps, held, sessions, opened, closed, ctor, probe>>

\* submit(buffer)
Submit ==
    /\ Running /\ DeviceFree
    /\ Call("submit", NoTok, 0)
    /\ lastCall' = NoCall /\ view' = NoView
    /\ UNCHANGED <<pc, bufs, mapped, nmaps, held, sessions, opened, closed, ctor, lastSet, probe>>

\* reset_state()
ResetState ==
    /\ Running /\ DeviceFree
    /\ Call("reset_state", NoTok, 0)
    /\ lastCall' = NoCall /\ view' = NoView
    /\ UNCHANGED <<pc, bufs, mapped, nmaps, held, sessions, opened, closed, ctor, lastSet, probe>>

\* map_buffer_raw(buf, access) called by the client itself: it keeps the token.
MapBufferRaw(b) ==
    /\ Running /\ DeviceFree
    /\ nmaps < MaxMaps
    /\ b \in Live
    /\ mapped' = mapped \cup {NewTok(b)}
    /\ held' = held \cup {NewTok(b)}
    /\ nmaps' = nmaps + 1
    /\ Call("map_buffer_raw", NewTok(b), 0)
    /\ lastCall' = NoCall /\ view' = NoView
    /\ UNCHANGED <<pc, bufs, sessions, opened, closed, ctor, lastSet, probe>>

\* unmap_buffer_raw(map) called by the client itself on a token it holds.
UnmapBufferRaw(t) ==
    /\ Running /\ DeviceFree
    /\ t \in held
    /\ mapped' = unmap_buffer_raw(mapped, t)
    /\ Call("unmap_buffer_raw", t, 0)
    /\ lastCall' = NoCall /\ view' = NoView
    /\ UNCHANGED <<pc, bufs, nmaps, held, sessions, opened, closed, ctor, lastSet, probe>>

\* ------------------------------------------------------- opening a session
\* map_buffer_readable / map_buffer_writable / map_buffer_rw<T>(buf): the raw
\* token of map_buffer_raw(buf.cast(), access) wrapped by the MapFactory
\* constructor with buf.len() as length.  A handle without a length panics
\* after the raw map.
MapBuffer(kind, b) ==
    /\ Running /\ DeviceFree
    /\ opened < MaxSessions /\ nmaps < MaxMaps
    /\ b \in Live
    /\ mapped' = mapped \cup {NewTok(b)}
    /\ nmaps' = nmaps + 1
    /\ Call("map_buffer_raw", NewTok(b), NextSid)
    /\ LET n == len(bufs[b].T, bufs[b].size) IN
       IF n = Fail
       THEN /\ pc' = Unwind(sessions)
            /\ UNCHANGED <<sessions, opened, ctor>>
       ELSE /\ sessions' = sessions \cup {Session(Wrapper(kind, NewTok(b), n), NextSid, "map_buffer")}
            /\ opened' = opened + 1
            /\ ctor' = [sid |-> NextSid, raw |-> NewTok(b), len |-> n]
            /\ pc' = pc
    /\ lastCall' = NoCall /\ view' = NoView
    /\ UNCHANGED <<bufs, held, closed, lastSet, probe>>

MapBufferReadable(b) == MapBuffer("Readable", b)

MapBufferWritable(b) == MapBuffer("Writable", b)

MapBufferRW(b) == MapBuffer("RW", b)

\* MapFactory::map_readable / map_writable / map_read_write called by the
\* client itself (the trait is public and implemented for every Device): any
\* token it holds, any length.
FactoryMap(kind, t, length) ==
    /\ Running /\ DeviceFree
    /\ opened < MaxSessions
    /\ t \in held
    /\ sessions' = sessions \cup {Session(Wrapper(kind, t, length), NextSid, "factory")}
    /\ opened' = opened + 1
    /\ ctor' = [sid |-> NextSid, raw |-> t, len |-> length]
    /\ lastCall' = NoCall /\ view' = NoView
    /\ UNCHANGED <<pc, bufs, mapped, nmaps, last, held, closed, lastSet, probe>>

FactoryMapReadable(t, length) == FactoryMap("Readable", t, length)

FactoryMapWritable(t, length) == FactoryMap("Writable", t, length)

FactoryMapReadWrite(t, length) == FactoryMap("RW", t, length)

\* ------------------------------------------------------- using a session
\* WritableMapping::set(idx, val)
WritableMapping_set(s, idx, val) ==
    /\ Running
    /\ s \in sessions /\ s.kind = "Writable"
    /\ IF set_panics(idx, s.len)
       THEN /\ pc' = "unwinding"
            /\ lastCall' = [op |-> "set", idx |-> idx, len |-> s.len,
                            rawset |-> FALSE, res |-> "panic"]
            /\ UNCHANGED <<bufs, lastSet>>
       ELSE /\ bufs' \in raw_set(s.raw, idx, val)
            /\ lastCall' = [op |-> "set", idx |-> idx, len |-> s.len,
                            rawset |-> TRUE, res |-> "ok"]
            /\ lastSet' = [via |-> s.via, buf |-> s.raw.buf, idx |-> idx, val |-> val,
                           want |-> Stored(bufs[s.raw.buf].mem, idx, val)]
            /\ pc' = pc
    /\ view' = NoView
    /\ UNCHANGED <<mapped, nmaps, last, held, sessions, opened, closed, ctor, probe>>

\* Deref for ReadableMapping / RWMapping: the slice of self.len elements.
Deref(s) ==
    /\ Running
    /\ s \in sessions /\ s.kind \in {"Readable", "RW"}
    /\ \E d \in to_slice(s.raw, s.len) : view' = [sid |-> s.sid, data |-> d]
    /\ lastCall' = NoCall
    /\ UNCHANGED <<pc, bufs, mapped, nmaps, last, held, sessions, opened, closed, ctor, lastSet, probe>>

\* DerefMut for RWMapping, and a store of val at idx < len through the slice.
DerefMutStore(s, idx, val) ==
    /\ Running
    /\ s \in sessions /\ s.kind = "RW"
    /\ idx < s.len
    /\ bufs' \in (IF TokValid(s.raw) /\ s.len <= Len(bufs[s.raw.buf].mem)
                  THEN {[bufs EXCEPT ![s.raw.buf].mem[idx + 1] = val]}
                  ELSE WildWrites(val))
    /\ lastSet' = KeepSet(bufs')
    /\ lastCall' = NoCall /\ view' = NoView
    /\ UNCHANGED <<pc, mapped, nmaps, last, held, sessions, opened, closed, ctor, probe>>

\* Drop for the three wrappers: at scope end, at an early return, or while a
\* panic unwinds.  drop() calls the backend, then the wrapper and its borrow
\* are gone.
Drop(s) ==
    /\ pc \in {"run", "unwinding"}
    /\ s \in sessions
    /\ mapped' = UnmapAll(mapped, drop(s))
    /\ last' = IF drop(s) = <<>> THEN last
               ELSE Entry("unmap_buffer_raw", drop(s)[Len(drop(s))], s.sid, TRUE)
    /\ closed' = closed + Len(drop(s))
    /\ ctor' = IF ctor.sid = s.sid THEN NoCtor ELSE ctor
    /\ sessions' = sessions \ {s}
    /\ pc' = IF pc = "unwinding" THEN Unwind(sessions') ELSE pc
    /\ lastCall' = NoCall /\ view' = NoView
    /\ UNCHANGED <<bufs, nmaps, held, opened, lastSet, probe>>

Next ==
    \/ \E T \in ElemTypes, num \in 0..MaxLen : CreateBuffer(T, num)
    \/ \E b \in Slots : DeleteBuffer(b)
    \/ \E b \in Slots, off \in 0..MaxLen, val \in Vals : UpdateBuffer(b, off, val)
    \/ Submit
    \/ ResetState
    \/ \E b \in Slots : MapBufferRaw(b)
    \/ \E t \in held : UnmapBufferRaw(t)
    \/ \E b \in Slots : MapBufferReadable(b)
    \/ \E b \in Slots : MapBufferWritable(b)
    \/ \E b \in Slots : MapBufferRW(b)
    \/ \E t \in held, length \in 0..MaxLen : FactoryMapReadable(t, length)
    \/ \E t \in held, length \in 0..MaxLen : FactoryMapWritable(t, length)
    \/ \E t \in held, length \in 0..MaxLen : FactoryMapReadWrite(t, length)
    \/ \E s \in sessions, idx \in 0..(MaxLen + 1), val \in Vals : WritableMapping_set(s, idx, val)
    \/ \E s \in sessions : Deref(s)
    \/ \E s \in sessions, idx \in 0..MaxLen, val \in Vals : DerefMutStore(s, idx, val)
    \/ \E s \in sessions : Drop(s)

Spec == Init /\ [][Next]_vars

\* ------------------------------------------ typed handles and their length
\* The handle arithmetic on its own: every element type and every usize count.
InitLen ==
    /\ pc = "run"
    /\ bufs = [b \in Slots |-> FreeBuf]
    /\ mapped = {}
    /\ nmaps = 0
    /\ last = Entry("none", NoTok, 0, FALSE)
    /\ held = {}
    /\ sessions = {}
    /\ opened = 0
    /\ closed = 0
    /\ ctor = NoCtor
    /\ lastSet = NoSet
    /\ lastCall = NoCall
    /\ view = NoView
    /\ \E T \in ElemTypes, n \in 0..UsizeMax : probe = [NoProbe EXCEPT !.T = T, !.n = n]

device_vars == <<pc, bufs, mapped, nmaps, last, held, sessions, opened, closed, ctor,
                 lastSet, lastCall, view>>

\* An overflowing usize product panics in a checked build and wraps in an
\* unchecked one.
Handle(via, size, overflow) ==
    {[probe EXCEPT !.stage = "handle", !.via = via, !.size = size]}
      \cup (IF overflow THEN {[probe EXCEPT !.stage = "panic", !.via = via]} ELSE {})

\* create_buffer<T>(n, usage) over a backend that allocates what it is asked for.
ProbeCreateBuffer ==
    /\ probe.stage = "input"
    /\ probe' \in Handle("create_buffer", create_buffer_size(probe.T, probe.n),
                         mul_overflows(probe.n, size_of(probe.T)))
    /\ UNCHANGED device_vars

\* test::mock_buffer::<T>(n)
ProbeMockBuffer ==
    /\ probe.stage = "input"
    /\ probe' \in Handle("mock_buffer", mock_buffer_size(probe.T, probe.n),
                         mul_overflows(size_of(probe.T), probe.n))
    /\ UNCHANGED device_vars

\* handle.len()
ProbeLen ==
    /\ probe.stage = "handle"
    /\ probe' = [probe EXCEPT !.stage = "done", !.len = len(probe.T, probe.size)]
    /\ UNCHANGED device_vars

NextLen == ProbeCreateBuffer \/ ProbeMockBuffer \/ ProbeLen

SpecLen == InitLen /\ [][NextLen]_vars

\* ------------------------------------------------------------ properties
IsUnmap(e) == e.op = "unmap_buffer_raw"
IsMap(e) == e.op = "map_buffer_raw"

\* The session was returned by a map_buffer_* call.
FromMapBuffer(s) == s.via = "map_buffer"

\* C1: every session that was opened and has gone out of scope (scope end,
\* early return, or unwinding after a fatal set) got exactly one
\* unmap_buffer_raw call, an open one has got none yet: k sessions opened and
\* dropped have made exactly k calls, and a panic leaves no session behind.
C1_UnmapExactlyOnce ==
    /\ closed = opened - Cardinality(sessions)
    /\ \A s \in sessions : ~(IsUnmap(last) /\ last.by = s.sid)
    /\ pc = "panicked" => sessions = {}

\* Two sessions opened and dropped in sequence, the second while a panic unwound.
C1_Witness ==
    /\ opened = 2 /\ sessions = {} /\ closed = 2
    /\ pc = "panicked" /\ IsUnmap(last) /\ last.by = 2

\* C2: at most one mapping session is open against the device, and every
\* session opened before the open one has been dropped and unmapped.
C2_AtMostOneSession ==
    /\ Cardinality(sessions) <= 1
    /\ \A s \in sessions : s.sid = opened /\ closed >= opened - 1

\* A second session is open after the first one was dropped.
C2_Witness == \E s \in sessions : s.sid = 2 /\ closed = 1

\* C3: the device executes no call while a wrapper holds it, except the unmap
\* a wrapper's drop issues, and that unmap runs in the step that ends the
\* session, not after the borrow is gone; the call after the map_buffer_raw of
\* a map_buffer_* call is the unmap of the session it opened, on its token.
C3_NothingBetweenMapAndUnmap ==
    [][ /\ \A s \in sessions :
             \/ s \in sessions' /\ last' = last
             \/ s \notin sessions' /\ last' = Entry("unmap_buffer_raw", s.raw, s.sid, TRUE)
        /\ \A s \in sessions' \ sessions :
             FromMapBuffer(s) => last' = Entry("map_buffer_raw", s.raw, s.sid, FALSE)
        /\ last'.borrowed => IsUnmap(last') /\ last'.by # 0
        /\ (IsMap(last) /\ last.by # 0 /\ last' # last) =>
             last' = Entry("unmap_buffer_raw", last.tok, last.by, TRUE) ]_vars

\* The second session, opened by a map_buffer_* call after other device calls,
\* has just been dropped.
C3_Witness ==
    /\ IsUnmap(last) /\ last.by = 2 /\ last.borrowed
    /\ last.tok.n = 2 /\ nmaps = 2
    /\ sessions = {} /\ held = {} /\ pc = "run"

\* C4: a set with idx >= len panics and writes nothing: the raw set is not
\* invoked and the buffers are as they were, whatever idx and len are.
C4_SetOutOfRangeNoWrite ==
    [][ (lastCall'.op = "set" /\ lastCall'.idx >= lastCall'.len) =>
          /\ lastCall'.res = "panic" /\ ~lastCall'.rawset
          /\ bufs' = bufs
          /\ pc' = "unwinding" ]_vars

\* A fatal set on a session over a buffer of no elements.
C4_Witness ==
    /\ lastCall.op = "set" /\ lastCall.res = "panic"
    /\ lastCall.len = 0 /\ lastCall.idx = 0
    /\ pc = "unwinding"

\* The slice a map_buffer_readable / map_buffer_rw session shows after a
\* WritableMapping::set(idx, val) whose session was dropped: val at idx, the
\* other elements as before the set.
ShowsLastSet(s) ==
    /\ Len(view.data) > lastSet.idx
    /\ view.data[lastSet.idx + 1] = lastSet.val
    /\ \A j \in 1..Len(view.data) :
         j # lastSet.idx + 1 => j <= Len(lastSet.want) /\ view.data[j] = lastSet.want[j]

RemappedAfterSet(s) ==
    /\ s.kind \in {"Readable", "RW"} /\ FromMapBuffer(s)
    /\ view.sid = s.sid
    /\ lastSet.buf = s.raw.buf
    /\ \A w \in sessions : w.kind # "Writable"

\* C5: after an in-range WritableMapping::set(idx, val) and the drop of that
\* session, a Readable/RW session opened over the same buffer yields val at
\* idx and every other element as it was before the set.
C5_SetVisibleAfterRemap ==
    \A s \in sessions : RemappedAfterSet(s) => ShowsLastSet(s)

\* The same, for a WritableMapping that a map_buffer_writable call returned.
C5_ViaMapBufferWritable ==
    \A s \in sessions :
      (RemappedAfterSet(s) /\ lastSet.via = "map_buffer")
         => ShowsLastSet(s)

C5_ViaMapBufferWitness ==
    \E s \in sessions :
      /\ RemappedAfterSet(s) /\ lastSet.via = "map_buffer"
      /\ view.data[lastSet.idx + 1] = 1

\* C6 as stated: every typed handle made for n elements of T, whatever T and
\* n, reports length n.
C6_LenIsCount_AllTypesAllCounts ==
    probe.stage = "done" => probe.len = probe.n

\* C6, amended: for an element type of non-zero size and a count n whose byte
\* size n * sizeof(T) fits a usize, the handle reports length n (0 for n = 0).
C6_LenIsCount ==
    (probe.stage = "done" /\ size_of(probe.T) > 0 /\ probe.n * size_of(probe.T) <= UsizeMax) =>
       /\ probe.len = probe.n
       /\ probe.size \div size_of(probe.T) = probe.n
       /\ probe.n = 0 => probe.len = 0

\* create_buffer::<u16>(8, usage).len() = 8
C6_Witness ==
    /\ probe.stage = "done" /\ probe.via = "create_buffer"
    /\ probe.T = "u16" /\ probe.n = 8 /\ probe.size = 16 /\ probe.len = 8

\* C7: len() of a zero-length handle over a zero-sized element type fails
\* instead of returning a length.
C7_ZeroSizedLenFails ==
    (probe.stage = "done" /\ size_of(probe.T) = 0 /\ probe.n = 0) => probe.len = Fail

\* mock_buffer::<()>(0).len()
C7_Witness ==
    /\ probe.stage = "done" /\ probe.via = "mock_buffer"
    /\ probe.T = "unit" /\ probe.n = 0 /\ probe.size = 0 /\ probe.len = Fail

C9_OnlyMapBufferCreatesSessions ==
    \A s \in sessions : FromMapBuffer(s) /\ last = Entry("map_buffer_raw", s.raw, s.sid, FALSE)

\* C10: an open session keeps the token and len it was constructed with, and
\* the token its drop hands to unmap_buffer_raw is the token it was
\* constructed with; drops follow constructions one for one, in order.
C10_UnmapsConstructionToken ==
    [][ /\ \A s \in sessions' :
             s.sid = ctor'.sid /\ s.raw = ctor'.raw /\ s.len = ctor'.len
        /\ \A s \in sessions : s \in sessions' => ctor' = ctor
        /\ \A s \in sessions \ sessions' :
             /\ last' = Entry("unmap_buffer_raw", ctor.raw, ctor.sid, TRUE)
             /\ ctor.sid = opened /\ closed' = opened ]_vars

\* The second session, over a second token, has just been dropped.
C10_Witness ==
    /\ sessions = {} /\ closed = 2 /\ opened = 2
    /\ IsUnmap(last) /\ last.by = 2 /\ last.tok.n = 2

====
